---- MODULE Spec2Model ----
(***************************************************************************)
(* Model of the manifest migration engine (packages/builder/src/manifest/   *)
(* migrate.ts), of the storage provider registry (packages/builder/src/     *)
(* storage/factory.ts) and of the motion photo detector (packages/builder/  *)
(* src/photo/motion-photo-detector.ts).                                     *)
(*                                                                          *)
(* A JavaScript value that may be undefined is an option: None is           *)
(* undefined (an absent JSON field), Some(x) is the value x.                *)
(***************************************************************************)
EXTENDS Integers, Sequences, FiniteSets, TLC

None == <<>>
Some(x) == <<x>>

\* JavaScript truthiness of an optional number, string, boolean.
TruthyNum(o) == o # None /\ o[1] # 0
TruthyStr(o) == o # None /\ o[1] # ""
TruthyBool(o) == o # None /\ o[1]

(***************************************************************************)
(* Bounds of the model.                                                     *)
(***************************************************************************)
\* Largest number of items in a loaded document's data array.
MaxItems == 2
\* Largest number of steps in a hypothetical (possibly malformed) registry.
MaxSteps == 2

(***************************************************************************)
(* Documents and items.                                                     *)
(***************************************************************************)
CURRENT_MANIFEST_VERSION == "v8"

\* A URL is a sequence of tokens; its last token is its suffix.
WebpUrl == <<"thumb", ".webp">>
WebpInsideUrl == <<"thumb", ".webp", ".bak">>

MkItem(live, url, s3, off, size, pts, thumb) ==
  [ isLivePhoto |-> live, livePhotoVideoUrl |-> url, livePhotoVideoS3Key |-> s3,
    motionPhotoOffset |-> off, motionPhotoVideoSize |-> size,
    presentationTimestampUs |-> pts, thumbnailUrl |-> thumb, video |-> None ]

\* Items a persisted v1..v7 document may carry: every mix of the Live Photo
\* fields, every mix of the motion photo fields, both at once, thumbnails.
LiveItems ==
  { MkItem(l, u, k, None, None, None, None) :
      l \in {None, Some(TRUE)}, u \in {None, Some("u.mov")}, k \in {None, Some("key")} }
MotionItems ==
  { MkItem(None, None, None, Some(5), s, Some(7), None) : s \in {None, Some(0), Some(9)} }
  \cup { MkItem(None, None, None, Some(5), Some(9), p, None) : p \in {None, Some(0)} }
  \cup { MkItem(None, None, None, Some(0), Some(9), Some(7), None) }
BothItems ==
  { MkItem(Some(TRUE), Some("u.mov"), k, Some(5), None, None, None) :
      k \in {None, Some("key")} }
ThumbItems ==
  { MkItem(None, None, None, None, None, None, Some(t)) : t \in {WebpUrl, WebpInsideUrl} }
Items == LiveItems \cup MotionItems \cup BothItems \cup ThumbItems

RECURSIVE SeqsUpTo(_, _)
SeqsUpTo(S, n) ==
  IF n = 0 THEN { <<>> }
  ELSE LET shorter == SeqsUpTo(S, n - 1)
       IN  shorter \cup { Append(s, x) : s \in { t \in shorter : Len(t) = n - 1 }, x \in S }

MkDoc(v, d) == [ version |-> v, data |-> d, cameras |-> <<"camera">>, lenses |-> <<"lens">> ]

\* The version tags a persisted document may carry: none, one with a
\* registered step, one without ("v5"), the current one.
DocVersions == { None, Some("v1"), Some("v5"), Some("v6"), Some("v7"), Some("v8") }

\* Loaded documents; data is undefined in a malformed one.
Docs ==
  { MkDoc(v, d) : v \in DocVersions,
                  d \in {None} \cup { Some(s) : s \in SeqsUpTo(Items, MaxItems) } }

\* Documents without content, for runs over hypothetical registries.
PlainDocs == { MkDoc(v, Some(<<>>)) : v \in { None, Some("v6"), Some("v7"), Some("v8") } }

LegacyFields ==
  { "isLivePhoto", "livePhotoVideoUrl", "livePhotoVideoS3Key",
    "motionPhotoOffset", "motionPhotoVideoSize", "presentationTimestampUs" }

(***************************************************************************)
(* The registered transforms (MIGRATION_STEPS).                             *)
(***************************************************************************)
\* An exec either returns a document or throws.
Returned(doc) == [ threw |-> FALSE, doc |-> doc ]
Threw(doc) == [ threw |-> TRUE, doc |-> doc ]

\* v1 -> v6: a fresh, empty manifest.
ExecReset(raw) ==
  Returned([ version |-> Some("v6"), data |-> Some(<<>>), cameras |-> <<>>, lenses |-> <<>> ])

\* String.replace(/\.webp$/, '.jpg')
ReplaceWebpSuffix(url) ==
  IF Len(url) > 0 /\ url[Len(url)] = ".webp"
  THEN [ url EXCEPT ![Len(url)] = ".jpg" ]
  ELSE url

ThumbnailItem(item) ==
  IF item.thumbnailUrl # None
  THEN [ item EXCEPT !.thumbnailUrl = Some(ReplaceWebpSuffix(item.thumbnailUrl[1])) ]
  ELSE item

\* v6 -> v7: raw.data.forEach throws a TypeError when data is undefined.
ExecThumbnail(raw) ==
  IF raw.data = None THEN Threw(raw)
  ELSE LET items == raw.data[1]
       IN  Returned([ raw EXCEPT
             !.data = Some([ i \in 1..Len(items) |-> ThumbnailItem(items[i]) ]),
             !.version = Some("v7") ])

MotionVideo(item) ==
  [ type |-> "motion-photo",
    offset |-> item.motionPhotoOffset,
    size |-> IF TruthyNum(item.motionPhotoVideoSize) THEN item.motionPhotoVideoSize ELSE None,
    presentationTimestamp |->
      IF TruthyNum(item.presentationTimestampUs) THEN item.presentationTimestampUs ELSE None,
    videoUrl |-> None, s3Key |-> None ]

LiveVideo(item) ==
  [ type |-> "live-photo",
    offset |-> None, size |-> None, presentationTimestamp |-> None,
    videoUrl |-> item.livePhotoVideoUrl, s3Key |-> item.livePhotoVideoS3Key ]

VideoSourceLiveFirst(item) ==
  IF TruthyBool(item.isLivePhoto) /\ TruthyStr(item.livePhotoVideoUrl)
       /\ TruthyStr(item.livePhotoVideoS3Key)
  THEN Some(LiveVideo(item))
  ELSE IF item.motionPhotoOffset # None /\ item.motionPhotoOffset[1] > 0
       THEN Some(MotionVideo(item))
       ELSE item.video

VideoSourceWithoutKeyCheck(item) ==
  IF item.motionPhotoOffset # None /\ item.motionPhotoOffset[1] > 0
  THEN Some(MotionVideo(item))
  ELSE IF TruthyBool(item.isLivePhoto) /\ TruthyStr(item.livePhotoVideoUrl)
       THEN Some(LiveVideo(item))
       ELSE item.video

\* The item's video field after the if / else-if of the v7 -> v8 transform.
VideoSource(item) ==
  IF item.motionPhotoOffset # None /\ item.motionPhotoOffset[1] > 0
  THEN Some(MotionVideo(item))
  ELSE IF TruthyBool(item.isLivePhoto) /\ TruthyStr(item.livePhotoVideoUrl)
       THEN IF TruthyStr(item.livePhotoVideoS3Key)
            THEN Some(LiveVideo(item))
            ELSE item.video
       ELSE item.video

DeleteLegacyFieldsMissesOffset(item) ==
  [ item EXCEPT !.isLivePhoto = None, !.livePhotoVideoUrl = None,
                !.livePhotoVideoS3Key = None,
                !.motionPhotoVideoSize = None, !.presentationTimestampUs = None ]

DeleteLegacyFields(item) ==
  [ item EXCEPT !.isLivePhoto = None, !.livePhotoVideoUrl = None,
                !.livePhotoVideoS3Key = None, !.motionPhotoOffset = None,
                !.motionPhotoVideoSize = None, !.presentationTimestampUs = None ]

VideoItem(item) == DeleteLegacyFields([ item EXCEPT !.video = VideoSource(item) ])

\* v7 -> v8: raw.data.forEach throws a TypeError when data is undefined.
ExecVideo(raw) ==
  IF raw.data = None THEN Threw(raw)
  ELSE LET items == raw.data[1]
       IN  Returned([ raw EXCEPT
             !.data = Some([ i \in 1..Len(items) |-> VideoItem(items[i]) ]),
             !.version = Some("v8") ])

MIGRATION_STEPS ==
  << [ from |-> "v1", to |-> "v6", exec |-> "reset" ],
     [ from |-> "v6", to |-> "v7", exec |-> "thumbnail" ],
     [ from |-> "v7", to |-> "v8", exec |-> "video" ] >>

(***************************************************************************)
(* Hypothetical registries: what migrateManifest does over any              *)
(* MigrationStep[], well-formed or not (migrateManifestFileIfNeeded always  *)
(* runs over MIGRATION_STEPS).  An exec of a hypothetical step              *)
(* sets the version to ctx.to ("setTo"), returns its argument as it is      *)
(* ("keep"), returns a document without a version ("unset"), or throws.     *)
(***************************************************************************)
HypotheticalExecs == { "setTo", "keep", "unset", "throw" }

HypotheticalSteps ==
  [ from : { "v6", "v7" }, to : { "v6", "v7", "v8" }, exec : HypotheticalExecs ]

HypotheticalRegistries == SeqsUpTo(HypotheticalSteps, MaxSteps)

\* step.exec(working, ctx) with ctx = { from: step.from, to: step.to }
RunExec(step, raw) ==
  CASE step.exec = "reset" -> ExecReset(raw)
    [] step.exec = "thumbnail" -> ExecThumbnail(raw)
    [] step.exec = "video" -> ExecVideo(raw)
    [] step.exec = "setTo" -> Returned([ raw EXCEPT !.version = Some(step.to) ])
    [] step.exec = "keep" -> Returned(raw)
    [] step.exec = "unset" -> Returned([ raw EXCEPT !.version = None ])
    [] step.exec = "throw" -> Threw(raw)

(***************************************************************************)
(* Motion photo detection (packages/builder/src/photo/                      *)
(* motion-photo-detector.ts): values and pure helpers.                      *)
(*                                                                          *)
(* A string is a sequence of one-character strings.  An EXIF value is a     *)
(* record of its JavaScript type t and its payload.  A buffer is known by   *)
(* what the detector reads of it: its length, the indices at which the      *)
(* four bytes 'ftyp' occur, and its XMP block (the indices of the two       *)
(* markers and the elements and attributes written between them).           *)
(*                                                                          *)
(* A JavaScript number that may have a fractional part (an EXIF value, a    *)
(* candidate, a start, the resolved offset, a timestamp) is kept as twice   *)
(* its value, so that a half is exact: Whole(n) is the number n and         *)
(* Whole(n) + 1 the number n + 1/2.  Lengths and indices of a buffer are    *)
(* integers and are kept as they are.                                       *)
(***************************************************************************)
MAX_XMP_SCAN_BYTES == 524288
MIN_VIDEO_SIZE_BYTES == 8192
\* validateMp4Buffer: buffer.subarray(0, 32)
FTYP_SEARCH_WINDOW == 32
\* detectMotionPhoto: rawLength - 8 * 1024 * 1024
FALLBACK_SCAN_BYTES == 8388608
\* 'ftyp'.length, '<x:xmpmeta'.length, '</x:xmpmeta>'.length
FTYP_LENGTH == 4
XMP_START_LENGTH == 10
XMP_END_LENGTH == 12

Val(t, b, n, s) == [ t |-> t, b |-> b, n |-> n, s |-> s ]
Undefined == Val("undefined", FALSE, 0, <<>>)
Bool(b) == Val("boolean", b, 0, <<>>)
\* The number n as a JavaScript number, and what is whole among them
Whole(n) == 2 * n
IsWhole(x) == x % 2 = 0
\* The integer a typed array method makes of an index: the fraction is dropped
ToInteger(x) == IF x >= 0 THEN x \div 2 ELSE 0 - ((0 - x) \div 2)
Num(n) == Val("number", FALSE, Whole(n), <<>>)
\* The number n + 1/2
NumAndHalf(n) == Val("number", FALSE, Whole(n) + 1, <<>>)
\* NaN (a number that is not finite)
NotANumber == Val("nan", FALSE, 0, <<>>)
Str(s) == Val("string", FALSE, 0, s)

Digits == { "0", "1", "2", "3", "4", "5", "6", "7", "8", "9" }

DigitValue(c) ==
  CASE c = "0" -> 0 [] c = "1" -> 1 [] c = "2" -> 2 [] c = "3" -> 3 [] c = "4" -> 4
    [] c = "5" -> 5 [] c = "6" -> 6 [] c = "7" -> 7 [] c = "8" -> 8 [] c = "9" -> 9

\* toLowerCase on the letters the model's strings use
LowerChar(c) ==
  CASE c = "T" -> "t" [] c = "R" -> "r" [] c = "U" -> "u" [] c = "E" -> "e"
    [] c = "Y" -> "y" [] c = "S" -> "s" [] OTHER -> c

ToLowerCase(s) == [ i \in 1..Len(s) |-> LowerChar(s[i]) ]

RECURSIVE TrimStart(_)
TrimStart(s) == IF s # <<>> /\ s[1] = " " THEN TrimStart(Tail(s)) ELSE s

RECURSIVE TrimEnd(_)
TrimEnd(s) == IF s # <<>> /\ s[Len(s)] = " " THEN TrimEnd(SubSeq(s, 1, Len(s) - 1)) ELSE s

Trim(s) == TrimEnd(TrimStart(s))

RECURSIVE ParseDigits(_, _, _)
ParseDigits(s, i, acc) ==
  IF i <= Len(s) /\ s[i] \in Digits
  THEN ParseDigits(s, i + 1, acc * 10 + DigitValue(s[i]))
  ELSE acc

\* Number.parseInt(s, 10) of a trimmed string: None is NaN
ParseInt(s) ==
  LET signed == s # <<>> /\ s[1] \in { "-", "+" }
      from == IF signed THEN 2 ELSE 1
  IN  IF from <= Len(s) /\ s[from] \in Digits
      THEN Some((IF signed /\ s[1] = "-" THEN -1 ELSE 1) * ParseDigits(s, from, 0))
      ELSE None

toBoolean(value) ==
  CASE value.t \in { "undefined", "null" } -> FALSE
    [] value.t = "boolean" -> value.b
    [] value.t = "number" -> value.n # 0
    [] value.t = "nan" -> TRUE
    [] value.t = "string" ->
         ToLowerCase(Trim(value.s)) \in { <<"1">>, <<"t", "r", "u", "e">>, <<"y", "e", "s">> }
    [] OTHER -> FALSE

\* None is null
toNumber(value) ==
  CASE value.t = "number" -> Some(value.n)
    [] value.t = "string" ->
         LET parsedInt == ParseInt(Trim(value.s))
         IN  IF parsedInt = None THEN None ELSE Some(Whole(parsedInt[1]))
    [] OTHER -> None

\* exifData?.field
ExifField(exif, field) == IF exif = None THEN Undefined ELSE exif[1][field]

\* a ?? b on two EXIF values
Coalesce(a, b) == IF a.t \in { "undefined", "null" } THEN b ELSE a

\* The first of a sequence of optional values that is not null: x ?? y ?? ... ?? null
RECURSIVE FirstNonNull(_)
FirstNonNull(options) ==
  IF options = <<>> THEN None
  ELSE IF options[1] # None THEN options[1] ELSE FirstNonNull(Tail(options))

\* extractXmpSegment scanning the whole buffer
extractXmpSegmentUnbounded(buffer) ==
  IF buffer.length = 0 \/ buffer.xmp = None THEN None
  ELSE LET xmp == buffer.xmp[1]
       IN  IF xmp.start + XMP_START_LENGTH > buffer.length THEN None
           ELSE IF xmp.end + XMP_END_LENGTH > buffer.length THEN None
           ELSE IF xmp.end + XMP_END_LENGTH <= xmp.start THEN None
           ELSE Some(xmp.entries)

\* extractXmpSegment: None is null.  The markers are found when they lie
\* whole within the first scanSize bytes; header.slice(startIndex, endIndex + 12)
\* is the empty string, which the caller takes for no segment, when the end
\* marker comes before the start marker.
extractXmpSegment(buffer) ==
  LET scanSize == IF buffer.length < MAX_XMP_SCAN_BYTES THEN buffer.length ELSE MAX_XMP_SCAN_BYTES
  IN  IF scanSize = 0 \/ buffer.xmp = None THEN None
      ELSE LET xmp == buffer.xmp[1]
           IN  IF xmp.start + XMP_START_LENGTH > scanSize THEN None
               ELSE IF xmp.end + XMP_END_LENGTH > scanSize THEN None
               ELSE IF xmp.end + XMP_END_LENGTH <= xmp.start THEN None
               ELSE Some(xmp.entries)

\* The case-insensitive match of two names, on the names the model uses.
NameLower(n) ==
  CASE n = "GCAMERA" -> "GCamera"
    [] n = "motionphoto" -> "MotionPhoto"
    [] OTHER -> n

SameName(a, b) == NameLower(a) = NameLower(b)

\* An element <X:tagName>value</...>: `<[^:>]*:${tagName}>([^<]+)</[^>]+>`
ElementMatches(entry, tagName) ==
  /\ entry.form = "element"
  /\ Len(entry.name) = Len(tagName) + 1
  /\ \A i \in 1..Len(tagName) : SameName(entry.name[i + 1], tagName[i])
  /\ entry.value # <<>>

\* An attribute attrName="value": `${buildAttrPattern(attrName)}="([^"]+)"`
AttributeMatches(entry, attrName) ==
  /\ entry.form = "attribute"
  /\ Len(entry.name) >= Len(attrName)
  /\ \A i \in 1..Len(attrName) :
       SameName(entry.name[Len(entry.name) - Len(attrName) + i], attrName[i])
  /\ entry.value # <<>>

\* xmp.match(regex): the value of the first match, None when there is none
FirstElement(xmp, tagName) ==
  IF \E i \in 1..Len(xmp) : ElementMatches(xmp[i], tagName)
  THEN Some(xmp[CHOOSE i \in 1..Len(xmp) :
                  /\ ElementMatches(xmp[i], tagName)
                  /\ \A j \in 1..(i - 1) : ~ElementMatches(xmp[j], tagName)].value)
  ELSE None

FirstAttribute(xmp, attrName) ==
  IF \E i \in 1..Len(xmp) : AttributeMatches(xmp[i], attrName)
  THEN Some(xmp[CHOOSE i \in 1..Len(xmp) :
                  /\ AttributeMatches(xmp[i], attrName)
                  /\ \A j \in 1..(i - 1) : ~AttributeMatches(xmp[j], attrName)].value)
  ELSE None

\* boolean | null: None is null
extractXmpBoolean(xmp, tagName) ==
  LET m == FirstElement(xmp, tagName)
  IN  IF m = None THEN None ELSE Some(toBoolean(Str(m[1])))

extractXmpNumber(xmp, tagName) ==
  LET m == FirstElement(xmp, tagName)
  IN  IF m = None THEN None ELSE toNumber(Str(m[1]))

extractXmpAttributeBoolean(xmp, attrName) ==
  LET m == FirstAttribute(xmp, attrName)
  IN  IF m = None THEN None ELSE Some(toBoolean(Str(m[1])))

extractXmpAttributeNumber(xmp, attrName) ==
  LET m == FirstAttribute(xmp, attrName)
  IN  IF m = None THEN None ELSE toNumber(Str(m[1]))

\* buffer.subarray(start).length: subarray begins at the integer part of start
ChunkLength(buffer, start) ==
  IF ToInteger(start) >= buffer.length THEN 0 ELSE buffer.length - ToInteger(start)

\* validateMp4Buffer without the search for 'ftyp'
validateMp4BufferBySizeOnly(buffer, start) ==
  ~(ChunkLength(buffer, start) < MIN_VIDEO_SIZE_BYTES)

\* validateMp4Buffer(buffer.subarray(start))
validateMp4Buffer(buffer, start) ==
  IF ChunkLength(buffer, start) < MIN_VIDEO_SIZE_BYTES THEN FALSE
  ELSE \E p \in buffer.ftyp :
         /\ ToInteger(start) <= p
         /\ p + FTYP_LENGTH <= ToInteger(start) + FTYP_SEARCH_WINDOW

\* rawImageBuffer.indexOf(MP4_FTYP, from): -1 when there is none
IndexOfFtyp(buffer, from) ==
  LET later == { p \in buffer.ftyp : p >= from }
  IN  IF later = {} THEN -1 ELSE CHOOSE p \in later : \A q \in later : p <= q

\* addOffsetCandidate with numeric < 0 for numeric <= 0
addOffsetCandidateAdmitsZero(candidates, value) ==
  IF value = None THEN candidates
  ELSE IF value[1] < 0 THEN candidates
  ELSE IF \E i \in 1..Len(candidates) : candidates[i] = value[1] THEN candidates
  ELSE Append(candidates, value[1])

\* addOffsetCandidate on a Set<number>, kept in insertion order
addOffsetCandidate(candidates, value) ==
  IF value = None THEN candidates
  ELSE IF value[1] <= 0 THEN candidates
  ELSE IF \E i \in 1..Len(candidates) : candidates[i] = value[1] THEN candidates
  ELSE Append(candidates, value[1])

RECURSIVE AddAll(_, _)
AddAll(candidates, values) ==
  IF values = <<>> THEN candidates
  ELSE AddAll(addOffsetCandidate(candidates, values[1]), Tail(values))

\* possibleStarts with the interpretation from the end of the file first
PossibleStartsFromEndFirst(candidate, rawLength) ==
  IF candidate < Whole(rawLength) /\ Whole(rawLength) - candidate # candidate
  THEN << Whole(rawLength) - candidate, candidate >>
  ELSE << candidate >>

\* possibleStarts without the interpretation from the end of the file
PossibleStartsAbsoluteOnly(candidate, rawLength) == << candidate >>

\* possibleStarts: candidate, then rawLength - candidate when candidate < rawLength
PossibleStarts(candidate, rawLength) ==
  IF candidate < Whole(rawLength) /\ Whole(rawLength) - candidate # candidate
  THEN << candidate, Whole(rawLength) - candidate >>
  ELSE << candidate >>

\* if (start <= 0 || start >= rawLength - MIN_VIDEO_SIZE_BYTES) continue
StartInRange(start, rawLength) ==
  ~( start <= 0 \/ start >= Whole(rawLength - MIN_VIDEO_SIZE_BYTES) )

\* if (potentialStart > 0 && potentialStart < rawLength - MIN_VIDEO_SIZE_BYTES)
PotentialStartInRange(potentialStart, rawLength) ==
  potentialStart > 0 /\ potentialStart < rawLength - MIN_VIDEO_SIZE_BYTES

(***************************************************************************)
(* State.                                                                   *)
(***************************************************************************)
VARIABLES
  registry,   \* the step registry the engine runs over (MIGRATION_STEPS in the build)
  entry,      \* the function called: "engine" (migrateManifest) or "file" (migrateManifestFileIfNeeded)
  parsed,     \* the document passed in
  target,     \* migrateManifest's target
  pc,         \* position in the call
  current,    \* migrateManifest: let current
  working,    \* migrateManifest: let working
  guard,      \* migrateManifest: const guard
  execLog,    \* the steps whose exec was called in this run, in order
  migrated,   \* migrateManifestFileIfNeeded: const migrated
  thrown,     \* the exception thrown, "none" if none: "exec", "mkdir", "write"
  result,     \* how the call ended
  disk,       \* the manifest file
  ioLog,      \* the file system calls made, in order
  run,        \* 1 for the first call, 2 for a second call on the first call's result
  first,      \* the first call's result and log, once a second call began
  providers,  \* StorageFactory.providers: the Map's entries, in insertion order
  registered, \* per name, the factories passed to registerProvider, in call order
  call,       \* the latest call of a StorageFactory method and how it ended
  rawImageBuffer,           \* detectMotionPhoto: the buffer passed in
  exifData,                 \* detectMotionPhoto: the EXIF record passed in, None if null
  detectPc,                 \* position in detectMotionPhoto
  detectedMotion,           \* let detectedMotion
  presentationTimestampUs,  \* let presentationTimestampUs, None if null
  offsetCandidates,         \* the Set offsetCandidates, in insertion order
  candidateIndex,           \* the place in candidateList of the for loop
  resolvedOffset,           \* let resolvedOffset, None if null
  videoSize,                \* let videoSize, None if null
  cursor,                   \* the fallback scan's cursor
  attempts,                 \* the starts considered so far, in order
  detection                 \* how detectMotionPhoto ended

migrationVars ==
  << registry, entry, parsed, target, pc, current, working, guard, execLog,
     migrated, thrown, result, disk, ioLog, run, first >>

factoryVars == << providers, registered, call >>

detectorVars ==
  << rawImageBuffer, exifData, detectPc, detectedMotion, presentationTimestampUs,
     offsetCandidates, candidateIndex, resolvedOffset, videoSize, cursor, attempts,
     detection >>

vars == << migrationVars, factoryVars, detectorVars >>

\* Targets of direct calls of migrateManifest.
Targets == { "v7", "v8" }

Pending == [ kind |-> "pending", value |-> None, error |-> "none" ]

(***************************************************************************)
(* detectMotionPhoto: inputs.                                               *)
(***************************************************************************)
\* Most 'ftyp' tokens in a buffer, most elements and attributes in an XMP block.
MaxFtyp == 2

MaxXmpEntries == 2

\* Buffer lengths: an empty buffer, one shorter than the fallback window,
\* one longer than it.
SmallLength == 20000

LargeLength == FALLBACK_SCAN_BYTES + 20000

\* Indices of 'ftyp' tokens.  In a buffer of SmallLength: at the very
\* head, 4 bytes into a region of 11800 bytes, 14 bytes into a region of
\* 10005 bytes, 4 and 12 bytes into a region of 8200 bytes, 21 bytes into a
\* region of exactly MIN_VIDEO_SIZE_BYTES bytes, at the head of a region of
\* 100 bytes.
SmallFtyp ==
  { 4, 8204, 10009, SmallLength - MIN_VIDEO_SIZE_BYTES - 4,
    SmallLength - MIN_VIDEO_SIZE_BYTES + 4, SmallLength - MIN_VIDEO_SIZE_BYTES + 21,
    SmallLength - 100 }

\* In a buffer of LargeLength: wholly before the fallback window, across
\* its first byte, 4 bytes into it, and near the end of the buffer.
LargeFtyp ==
  { LargeLength - FALLBACK_SCAN_BYTES - 10, LargeLength - FALLBACK_SCAN_BYTES - 2,
    LargeLength - FALLBACK_SCAN_BYTES + 4, LargeLength - MIN_VIDEO_SIZE_BYTES - 4 }

SubsetsUpTo(S, n) == { T \in SUBSET S : Cardinality(T) <= n }

Chars(w) ==
  CASE w = "1" -> << "1" >>
    [] w = "0" -> << "0" >>
    [] w = "TRUE" -> << "T", "R", "U", "E" >>
    [] w = "700" -> << "7", "0", "0" >>
    [] w = "8192" -> << "8", "1", "9", "2" >>
    [] w = "8200" -> << "8", "2", "0", "0" >>
    [] w = "9995" -> << "9", "9", "9", "5" >>
    [] w = " 11800 " -> << " ", "1", "1", "8", "0", "0", " " >>
    [] w = "Yes" -> << "Y", "e", "s" >>
    [] w = "no" -> << "n", "o" >>
    [] w = "soon" -> << "s", "o", "o", "n" >>

XmpEntry(form, name, value) == [ form |-> form, name |-> name, value |-> Chars(value) ]

\* What an XMP block may hold: <GCamera:MotionPhoto>, GCamera:MotionPhoto=,
\* <GCamera:MicroVideoOffset>, GCamera:MicroVideoOffset=, and a
\* presentation timestamp element.
XmpEntries ==
  { XmpEntry("attribute", << "GCamera", "MotionPhoto" >>, "1"),
    XmpEntry("attribute", << "GCAMERA", "motionphoto" >>, "TRUE"),
    XmpEntry("element", << "GCamera", "MotionPhoto" >>, "0"),
    XmpEntry("element", << "GCamera", "MicroVideoOffset" >>, "8200"),
    XmpEntry("attribute", << "GCamera", "MicroVideoOffset" >>, "9995"),
    XmpEntry("element", << "GCamera", "MotionPhotoPresentationTimestampUs" >>, "700") }

XmpBlocks(starts, ends) ==
  { Some([ start |-> s, end |-> e, entries |-> x ]) :
      s \in starts, e \in ends, x \in SeqsUpTo(XmpEntries, MaxXmpEntries) }

MkBuffer(kind, length, ftyp, xmp) ==
  [ kind |-> kind, length |-> length, ftyp |-> ftyp, xmp |-> xmp ]

\* Buffers without an XMP block.
PlainBuffers ==
  { MkBuffer("buffer", 0, {}, None) }
    \cup { MkBuffer("buffer", SmallLength, f, None) : f \in SubsetsUpTo(SmallFtyp, MaxFtyp) }
    \cup { MkBuffer("buffer", LargeLength, f, None) : f \in SubsetsUpTo(LargeFtyp, MaxFtyp) }

\* Buffers with an XMP block near the head, its markers in either order.
XmpBuffers ==
  { MkBuffer("buffer", SmallLength, f, x) :
      f \in SubsetsUpTo(SmallFtyp \ { 4 }, MaxFtyp),
      x \in XmpBlocks({ 100 }, { 2000 }) \cup XmpBlocks({ 2000 }, { 100 }) }

\* Buffers longer than MAX_XMP_SCAN_BYTES with the XMP markers ending at,
\* across and beyond that index.
DeepXmpBuffers ==
  { MkBuffer("buffer", LargeLength, f, x) :
      f \in SubsetsUpTo({ LargeLength - FALLBACK_SCAN_BYTES + 4 }, MaxFtyp),
      x \in XmpBlocks({ 100 }, { MAX_XMP_SCAN_BYTES - XMP_END_LENGTH,
                                  MAX_XMP_SCAN_BYTES - XMP_END_LENGTH + 1 })
            \cup XmpBlocks({ MAX_XMP_SCAN_BYTES - XMP_START_LENGTH,
                             MAX_XMP_SCAN_BYTES - XMP_START_LENGTH + 1,
                             MAX_XMP_SCAN_BYTES + 100 },
                           { MAX_XMP_SCAN_BYTES + 2000 }) }

\* Values passed for rawImageBuffer that are not Buffers: null; a plain
\* array of bytes (it has length, toString and indexOf, and no subarray;
\* its toString and indexOf find no marker and no token); a string (its
\* indexOf finds the tokens, and it has no subarray).
Malformed ==
  { MkBuffer("null", 0, {}, None), MkBuffer("array", SmallLength, {}, None),
    MkBuffer("string", SmallLength, { 8204 }, None),
    MkBuffer("string", SmallLength, { 4, 8204 }, None) }

MkExif(flag, video, pts, videoPts, offset) ==
  Some([ MotionPhoto |-> flag, MicroVideo |-> video,
         MotionPhotoPresentationTimestampUs |-> pts,
         MicroVideoPresentationTimestampUs |-> videoPts,
         MicroVideoOffset |-> offset ])

ExifFlags ==
  { << Undefined, Undefined >>, << Num(1), Undefined >>,
    << Undefined, Str(Chars("Yes")) >>, << Str(Chars("no")), Bool(FALSE) >> }

ExifTimestamps ==
  { << Undefined, Undefined >>, << Num(0), Num(500) >>, << Undefined, Str(Chars("700")) >> }

ExifOffsets ==
  { Undefined, Num(0), NotANumber, Str(Chars("soon")), Num(100), Num(MIN_VIDEO_SIZE_BYTES),
    Num(8200), NumAndHalf(8200), Num(9995), Str(Chars(" 11800 ")), Num(SmallLength),
    Num(LargeLength - MIN_VIDEO_SIZE_BYTES - 8) }

ExifDatas ==
  { None } \cup
  { MkExif(f[1], f[2], t[1], t[2], o) : f \in ExifFlags, t \in ExifTimestamps, o \in ExifOffsets }

\* EXIF records for the buffers that carry XMP: no EXIF, EXIF without any
\* hint, EXIF with an offset, EXIF with a flag.
FewExifDatas ==
  { None,
    MkExif(Undefined, Undefined, Undefined, Undefined, Undefined),
    MkExif(Undefined, Undefined, Undefined, Undefined, Num(8200)),
    MkExif(Num(1), Undefined, Num(0), Undefined, Undefined) }

DetectorInputs ==
  (PlainBuffers \X ExifDatas)
    \cup ((XmpBuffers \cup DeepXmpBuffers \cup Malformed) \X FewExifDatas)

(***************************************************************************)
(* detectMotionPhoto                                                        *)
(***************************************************************************)
DetectionPending == [ kind |-> "pending", value |-> None ]

\* return null
ReturnedNull == [ kind |-> "returned", value |-> None ]

\* return { isMotionPhoto: true, ... }; presentationTimestampUs ?? undefined.
\* offset and timestamp are numbers in halves, size is chunk.length in bytes.
ReturnedMetadata(offset, size, timestamp) ==
  [ kind |-> "returned",
    value |-> Some([ isMotionPhoto |-> TRUE, motionPhotoOffset |-> offset,
                     motionPhotoVideoSize |-> size,
                     presentationTimestampUs |-> timestamp ]) ]

\* An exception that leaves detectMotionPhoto.
Raised == [ kind |-> "raised", value |-> None ]

\* No call of detectMotionPhoto is under way.
DetectorIdle ==
  /\ rawImageBuffer = MkBuffer("buffer", 0, {}, None)
  /\ exifData = None
  /\ detectPc = "idle"
  /\ detectedMotion = FALSE
  /\ presentationTimestampUs = None
  /\ offsetCandidates = <<>>
  /\ candidateIndex = 0
  /\ resolvedOffset = None
  /\ videoSize = None
  /\ cursor = -1
  /\ attempts = <<>>
  /\ detection = DetectionPending

\* detectMotionPhoto has been called.
DetectorInit ==
  /\ \E input \in DetectorInputs :
       /\ rawImageBuffer = input[1]
       /\ exifData = input[2]
  /\ detectPc = "start"
  /\ detectedMotion = FALSE
  /\ presentationTimestampUs = None
  /\ offsetCandidates = <<>>
  /\ candidateIndex = 0
  /\ resolvedOffset = None
  /\ videoSize = None
  /\ cursor = -1
  /\ attempts = <<>>
  /\ detection = DetectionPending

exifIndicatesMotion(exif) ==
  toBoolean(ExifField(exif, "MotionPhoto")) \/ toBoolean(ExifField(exif, "MicroVideo"))

\* The eight XMP flags, in the order of the array; None is null.
motionFlags(xmp) ==
  << extractXmpBoolean(xmp, << "MotionPhoto" >>),
     extractXmpBoolean(xmp, << "GCamera", "MotionPhoto" >>),
     extractXmpBoolean(xmp, << "MicroVideo" >>),
     extractXmpBoolean(xmp, << "GCamera", "MicroVideo" >>),
     extractXmpAttributeBoolean(xmp, << "MotionPhoto" >>),
     extractXmpAttributeBoolean(xmp, << "GCamera", "MotionPhoto" >>),
     extractXmpAttributeBoolean(xmp, << "MicroVideo" >>),
     extractXmpAttributeBoolean(xmp, << "GCamera", "MicroVideo" >>) >>

\* motionFlags.filter((flag) => flag !== null).some(Boolean)
SomeFlag(flags) == \E i \in 1..Len(flags) : flags[i] = Some(TRUE)

\* The four XMP offsets, in the order of the array.
XmpOffsets(xmp) ==
  << extractXmpNumber(xmp, << "MicroVideoOffset" >>),
     extractXmpNumber(xmp, << "GCamera", "MicroVideoOffset" >>),
     extractXmpAttributeNumber(xmp, << "MicroVideoOffset" >>),
     extractXmpAttributeNumber(xmp, << "GCamera", "MicroVideoOffset" >>) >>

XmpTimestamp(xmp) ==
  FirstNonNull(<< extractXmpNumber(xmp, << "MotionPhotoPresentationTimestampUs" >>),
                  extractXmpNumber(xmp, << "MicroVideoPresentationTimestampUs" >>),
                  extractXmpAttributeNumber(xmp, << "MotionPhotoPresentationTimestampUs" >>),
                  extractXmpAttributeNumber(xmp, << "MicroVideoPresentationTimestampUs" >>) >>)

\* detectedMotion once the EXIF and the XMP flags were read
GatherDetectedMotion(buffer, exif) ==
  LET xmpSegment == extractXmpSegment(buffer)
  IN  IF exifIndicatesMotion(exif) THEN TRUE
      ELSE IF xmpSegment = None THEN FALSE
      ELSE SomeFlag(motionFlags(xmpSegment[1]))

\* offsetCandidates once the EXIF and the XMP offsets were added
GatherOffsetCandidates(buffer, exif) ==
  LET xmpSegment == extractXmpSegment(buffer)
      fromExif == addOffsetCandidate(<<>>, toNumber(ExifField(exif, "MicroVideoOffset")))
  IN  IF xmpSegment = None THEN fromExif
      ELSE AddAll(fromExif, XmpOffsets(xmpSegment[1]))

\* presentationTimestampUs once the EXIF and the XMP timestamps were read
GatherTimestamp(buffer, exif) ==
  LET xmpSegment == extractXmpSegment(buffer)
      fromExif == toNumber(Coalesce(ExifField(exif, "MotionPhotoPresentationTimestampUs"),
                                    ExifField(exif, "MicroVideoPresentationTimestampUs")))
  IN  IF fromExif # None \/ xmpSegment = None THEN fromExif
      ELSE XmpTimestamp(xmpSegment[1])

\* rawImageBuffer.length of null throws a TypeError
LengthThrows(buffer) == buffer.kind = "null"

\* rawImageBuffer.subarray is not a function
SubarrayThrows(buffer) == buffer.kind \in { "array", "string" }

\* The starts of one candidate as the inner for loop meets them: which
\* interpretation, whether the range check let it through, whether
\* validateMp4Buffer accepted it.
StartRecords(buffer, candidate) ==
  LET starts == PossibleStarts(candidate, buffer.length)
  IN  [ i \in 1..Len(starts) |->
          [ candidate |-> candidate,
            start |-> starts[i],
            via |-> IF i = 1 THEN "absolute" ELSE "fromEnd",
            checked |-> StartInRange(starts[i], buffer.length),
            valid |-> /\ StartInRange(starts[i], buffer.length)
                      /\ validateMp4Buffer(buffer, starts[i]) ] ]

\* The index of the first record that is checked (valid), 0 if none
FirstChecked(records) ==
  IF \E i \in 1..Len(records) : records[i].checked
  THEN CHOOSE i \in 1..Len(records) :
         records[i].checked /\ \A j \in 1..(i - 1) : ~records[j].checked
  ELSE 0

FirstValid(records) ==
  IF \E i \in 1..Len(records) : records[i].valid
  THEN CHOOSE i \in 1..Len(records) :
         records[i].valid /\ \A j \in 1..(i - 1) : ~records[j].valid
  ELSE 0

\* A catch block that throws the error again
CaughtRethrows(error) == Raised

\* try { ... } catch (error) { logger?.error(...); return null }
Caught(error) == ReturnedNull

\* const rawLength = rawImageBuffer.length throws
DetectThrows ==
  /\ detectPc = "start"
  /\ LengthThrows(rawImageBuffer)
  /\ detectPc' = "catch"
  /\ UNCHANGED << rawImageBuffer, exifData, detectedMotion, presentationTimestampUs,
                  offsetCandidates, candidateIndex, resolvedOffset, videoSize, cursor,
                  attempts, detection >>
  /\ UNCHANGED << migrationVars, factoryVars >>

\* The hints are gathered and there is none: return null
DetectNoSignal ==
  /\ detectPc = "start"
  /\ ~LengthThrows(rawImageBuffer)
  /\ detectedMotion' = GatherDetectedMotion(rawImageBuffer, exifData)
  /\ offsetCandidates' = GatherOffsetCandidates(rawImageBuffer, exifData)
  /\ presentationTimestampUs' = GatherTimestamp(rawImageBuffer, exifData)
  /\ ~detectedMotion' /\ Len(offsetCandidates') = 0
  /\ detection' = ReturnedNull
  /\ detectPc' = "done"
  /\ UNCHANGED << rawImageBuffer, exifData, candidateIndex, resolvedOffset, videoSize,
                  cursor, attempts >>
  /\ UNCHANGED << migrationVars, factoryVars >>

\* The hints are gathered and there is a flag or a candidate
DetectGather ==
  /\ detectPc = "start"
  /\ ~LengthThrows(rawImageBuffer)
  /\ detectedMotion' = GatherDetectedMotion(rawImageBuffer, exifData)
  /\ offsetCandidates' = GatherOffsetCandidates(rawImageBuffer, exifData)
  /\ presentationTimestampUs' = GatherTimestamp(rawImageBuffer, exifData)
  /\ ~(~detectedMotion' /\ Len(offsetCandidates') = 0)
  /\ candidateIndex' = 1
  /\ detectPc' = "candidates"
  /\ UNCHANGED << rawImageBuffer, exifData, resolvedOffset, videoSize, cursor, attempts,
                  detection >>
  /\ UNCHANGED << migrationVars, factoryVars >>

\* One pass of for (const candidate of candidateList): a start validates
CandidateValidates ==
  /\ detectPc = "candidates"
  /\ candidateIndex <= Len(offsetCandidates)
  /\ ~SubarrayThrows(rawImageBuffer)
  /\ LET records == StartRecords(rawImageBuffer, offsetCandidates[candidateIndex])
         hit == FirstValid(records)
     IN  /\ hit # 0
         /\ resolvedOffset' = Some(records[hit].start)
         /\ videoSize' = Some(ChunkLength(rawImageBuffer, records[hit].start))
         /\ attempts' = attempts \o SubSeq(records, 1, hit)
  /\ detectPc' = "finish"
  /\ UNCHANGED << rawImageBuffer, exifData, detectedMotion, presentationTimestampUs,
                  offsetCandidates, candidateIndex, cursor, detection >>
  /\ UNCHANGED << migrationVars, factoryVars >>

\* One pass of the loop: no start of the candidate validates
CandidateRejected ==
  /\ detectPc = "candidates"
  /\ candidateIndex <= Len(offsetCandidates)
  /\ LET records == StartRecords(rawImageBuffer, offsetCandidates[candidateIndex])
     IN  /\ IF SubarrayThrows(rawImageBuffer)
            THEN FirstChecked(records) = 0
            ELSE FirstValid(records) = 0
         /\ attempts' = attempts \o records
  /\ candidateIndex' = candidateIndex + 1
  /\ UNCHANGED << rawImageBuffer, exifData, detectPc, detectedMotion,
                  presentationTimestampUs, offsetCandidates, resolvedOffset, videoSize,
                  cursor, detection >>
  /\ UNCHANGED << migrationVars, factoryVars >>

\* One pass of the loop: rawImageBuffer.subarray(start) throws
CandidateThrows ==
  /\ detectPc = "candidates"
  /\ candidateIndex <= Len(offsetCandidates)
  /\ SubarrayThrows(rawImageBuffer)
  /\ LET records == StartRecords(rawImageBuffer, offsetCandidates[candidateIndex])
         at == FirstChecked(records)
     IN  /\ at # 0
         /\ attempts' = attempts \o SubSeq(records, 1, at)
  /\ detectPc' = "catch"
  /\ UNCHANGED << rawImageBuffer, exifData, detectedMotion, presentationTimestampUs,
                  offsetCandidates, candidateIndex, resolvedOffset, videoSize, cursor,
                  detection >>
  /\ UNCHANGED << migrationVars, factoryVars >>

\* Math.max(0, rawLength - 8 * 1024 * 1024)
searchWindowStart(rawLength) ==
  IF rawLength - FALLBACK_SCAN_BYTES > 0 THEN rawLength - FALLBACK_SCAN_BYTES ELSE 0

\* The loop is over with resolvedOffset === null: the fallback scan begins
FallbackBegins ==
  /\ detectPc = "candidates"
  /\ candidateIndex > Len(offsetCandidates)
  /\ cursor' = IndexOfFtyp(rawImageBuffer, searchWindowStart(rawImageBuffer.length))
  /\ detectPc' = "fallback"
  /\ UNCHANGED << rawImageBuffer, exifData, detectedMotion, presentationTimestampUs,
                  offsetCandidates, candidateIndex, resolvedOffset, videoSize, attempts,
                  detection >>
  /\ UNCHANGED << migrationVars, factoryVars >>

FallbackRecord(buffer, at) ==
  [ candidate |-> 0,
    start |-> Whole(at - 4),
    via |-> "fallback",
    checked |-> PotentialStartInRange(at - 4, buffer.length),
    valid |-> /\ PotentialStartInRange(at - 4, buffer.length)
              /\ validateMp4Buffer(buffer, Whole(at - 4)) ]

\* One pass of while (cursor !== -1): potentialStart validates
FallbackValidates ==
  /\ detectPc = "fallback"
  /\ cursor # -1
  /\ ~SubarrayThrows(rawImageBuffer)
  /\ FallbackRecord(rawImageBuffer, cursor).valid
  /\ resolvedOffset' = Some(Whole(cursor - 4))
  /\ videoSize' = Some(ChunkLength(rawImageBuffer, Whole(cursor - 4)))
  /\ attempts' = Append(attempts, FallbackRecord(rawImageBuffer, cursor))
  /\ detectPc' = "finish"
  /\ UNCHANGED << rawImageBuffer, exifData, detectedMotion, presentationTimestampUs,
                  offsetCandidates, candidateIndex, cursor, detection >>
  /\ UNCHANGED << migrationVars, factoryVars >>

\* One pass of the while loop: potentialStart is skipped, the cursor moves on
FallbackAdvances ==
  /\ detectPc = "fallback"
  /\ cursor # -1
  /\ IF SubarrayThrows(rawImageBuffer)
     THEN ~FallbackRecord(rawImageBuffer, cursor).checked
     ELSE ~FallbackRecord(rawImageBuffer, cursor).valid
  /\ attempts' = Append(attempts, FallbackRecord(rawImageBuffer, cursor))
  /\ cursor' = IndexOfFtyp(rawImageBuffer, cursor + 1)
  /\ UNCHANGED << rawImageBuffer, exifData, detectPc, detectedMotion,
                  presentationTimestampUs, offsetCandidates, candidateIndex,
                  resolvedOffset, videoSize, detection >>
  /\ UNCHANGED << migrationVars, factoryVars >>

\* One pass of the while loop: rawImageBuffer.subarray(potentialStart) throws
FallbackThrows ==
  /\ detectPc = "fallback"
  /\ cursor # -1
  /\ SubarrayThrows(rawImageBuffer)
  /\ FallbackRecord(rawImageBuffer, cursor).checked
  /\ attempts' = Append(attempts, FallbackRecord(rawImageBuffer, cursor))
  /\ detectPc' = "catch"
  /\ UNCHANGED << rawImageBuffer, exifData, detectedMotion, presentationTimestampUs,
                  offsetCandidates, candidateIndex, resolvedOffset, videoSize, cursor,
                  detection >>
  /\ UNCHANGED << migrationVars, factoryVars >>

\* The while loop ends with cursor === -1
FallbackExhausted ==
  /\ detectPc = "fallback"
  /\ cursor = -1
  /\ detectPc' = "finish"
  /\ UNCHANGED << rawImageBuffer, exifData, detectedMotion, presentationTimestampUs,
                  offsetCandidates, candidateIndex, resolvedOffset, videoSize, cursor,
                  attempts, detection >>
  /\ UNCHANGED << migrationVars, factoryVars >>

\* if (resolvedOffset === null || videoSize === null) return null
DetectUnresolved ==
  /\ detectPc = "finish"
  /\ ~(resolvedOffset # None /\ videoSize # None)
  /\ detection' = ReturnedNull
  /\ detectPc' = "done"
  /\ UNCHANGED << rawImageBuffer, exifData, detectedMotion, presentationTimestampUs,
                  offsetCandidates, candidateIndex, resolvedOffset, videoSize, cursor,
                  attempts >>
  /\ UNCHANGED << migrationVars, factoryVars >>

\* return { isMotionPhoto: true, motionPhotoOffset, motionPhotoVideoSize, ... }
DetectResolved ==
  /\ detectPc = "finish"
  /\ resolvedOffset # None /\ videoSize # None
  /\ detection' = ReturnedMetadata(resolvedOffset[1], videoSize[1], presentationTimestampUs)
  /\ detectPc' = "done"
  /\ UNCHANGED << rawImageBuffer, exifData, detectedMotion, presentationTimestampUs,
                  offsetCandidates, candidateIndex, resolvedOffset, videoSize, cursor,
                  attempts >>
  /\ UNCHANGED << migrationVars, factoryVars >>

\* catch (error) { ...; return null }
DetectCatch ==
  /\ detectPc = "catch"
  /\ detection' = Caught("TypeError")
  /\ detectPc' = "done"
  /\ UNCHANGED << rawImageBuffer, exifData, detectedMotion, presentationTimestampUs,
                  offsetCandidates, candidateIndex, resolvedOffset, videoSize, cursor,
                  attempts >>
  /\ UNCHANGED << migrationVars, factoryVars >>

(***************************************************************************)
(* StorageFactory                                                           *)
(***************************************************************************)
\* Most registerProvider calls per name in a run of the model.
MaxRegistrations == 2

ProviderNames == { "s3", "github", "local" }

\* A factory is known by its name; the provider it makes records both the
\* factory and the config it was made from.
Factories == { "factoryA", "factoryB" }

StorageConfigs == [ provider : ProviderNames, root : { "/photos", "/backup" } ]

Produce(factory, config) == [ madeBy |-> factory, config |-> config ]

\* new Error(`Unsupported storage provider: ${config.provider}`)
UnsupportedProviderError(name) ==
  [ name |-> "Error", message |-> << "Unsupported storage provider: ", name >> ]

MapKeys(m) == [ i \in 1..Len(m) |-> m[i].key ]

MapHas(m, k) == \E i \in 1..Len(m) : m[i].key = k

MapGetOrFirst(m, k) ==
  IF MapHas(m, k)
  THEN Some((CHOOSE e \in { m[i] : i \in 1..Len(m) } : e.key = k).value)
  ELSE IF Len(m) > 0 THEN Some(m[1].value) ELSE None

\* Map.prototype.get: undefined when the key is absent
MapGet(m, k) ==
  IF MapHas(m, k)
  THEN Some((CHOOSE e \in { m[i] : i \in 1..Len(m) } : e.key = k).value)
  ELSE None

MapSetAppends(m, k, v) == Append(m, [ key |-> k, value |-> v ])

MapSetKeepsFirst(m, k, v) ==
  IF MapHas(m, k) THEN m ELSE Append(m, [ key |-> k, value |-> v ])

\* Map.prototype.set: an existing key keeps its place and gets the new value
MapSet(m, k, v) ==
  IF MapHas(m, k)
  THEN [ i \in 1..Len(m) |-> IF m[i].key = k THEN [ key |-> k, value |-> v ] ELSE m[i] ]
  ELSE Append(m, [ key |-> k, value |-> v ])

NoCall ==
  [ op |-> "none", name |-> None, config |-> None, before |-> <<>>, invoked |-> <<>>,
    outcome |-> "none", provider |-> None, error |-> None, listing |-> <<>> ]

FactoryInit ==
  /\ providers = <<>>
  /\ registered = [ n \in ProviderNames |-> <<>> ]
  /\ call = NoCall

\* static registerProvider(provider, factory)
RegisterProvider ==
  \E name \in ProviderNames, factory \in Factories :
    /\ Len(registered[name]) < MaxRegistrations
    /\ providers' = MapSet(providers, name, factory)
    /\ registered' = [ registered EXCEPT ![name] = Append(@, factory) ]
    /\ call' = [ NoCall EXCEPT !.op = "registerProvider", !.name = Some(name),
                               !.before = providers, !.outcome = "return" ]
    /\ UNCHANGED << migrationVars, detectorVars >>

\* static createProvider(config): return factory(config)
CreateProvider ==
  \E config \in StorageConfigs :
    LET factory == MapGet(providers, config.provider)
    IN  /\ factory # None
        /\ call' = [ NoCall EXCEPT
                       !.op = "createProvider", !.config = Some(config),
                       !.before = providers,
                       !.invoked = << [ factory |-> factory[1], config |-> config ] >>,
                       !.outcome = "return",
                       !.provider = Some(Produce(factory[1], config)) ]
        /\ UNCHANGED << providers, registered, migrationVars, detectorVars >>

\* static createProvider(config): if (!factory) throw new Error(...)
CreateProviderUnsupported ==
  \E config \in StorageConfigs :
    LET factory == MapGet(providers, config.provider)
    IN  /\ factory = None
        /\ call' = [ NoCall EXCEPT
                       !.op = "createProvider", !.config = Some(config),
                       !.before = providers,
                       !.outcome = "throw",
                       !.error = Some(UnsupportedProviderError(config.provider)) ]
        /\ UNCHANGED << providers, registered, migrationVars, detectorVars >>

\* static getRegisteredProviders(): Array.from(providers.keys())
GetRegisteredProviders ==
  /\ call' = [ NoCall EXCEPT !.op = "getRegisteredProviders", !.before = providers,
                             !.outcome = "return", !.listing = MapKeys(providers) ]
  /\ UNCHANGED << providers, registered, migrationVars, detectorVars >>

(***************************************************************************)
(* The manifest migration: initial states.                                  *)
(***************************************************************************)
MigrationInit ==
  /\ \/ registry = MIGRATION_STEPS /\ parsed \in Docs /\ entry \in { "engine", "file" }
     \/ registry \in HypotheticalRegistries /\ parsed \in PlainDocs /\ entry = "engine"
  /\ target \in (IF entry = "file" THEN { CURRENT_MANIFEST_VERSION } ELSE Targets)
  /\ pc = "start"
  /\ current = "unknown"
  /\ working = parsed
  /\ guard = {}
  /\ execLog = <<>>
  /\ migrated = None
  /\ thrown = "none"
  /\ result = Pending
  /\ disk = [ doc |-> parsed, intact |-> TRUE ]
  /\ ioLog = <<>>
  /\ run = 1
  /\ first = None

\* No call of migrateManifest or migrateManifestFileIfNeeded is under way.
MigrationIdle ==
  /\ registry = MIGRATION_STEPS
  /\ entry = "engine"
  /\ parsed = MkDoc(Some(CURRENT_MANIFEST_VERSION), Some(<<>>))
  /\ target = CURRENT_MANIFEST_VERSION
  /\ pc = "idle"
  /\ current = "unknown"
  /\ working = parsed
  /\ guard = {}
  /\ execLog = <<>>
  /\ migrated = None
  /\ thrown = "none"
  /\ result = Pending
  /\ disk = [ doc |-> parsed, intact |-> TRUE ]
  /\ ioLog = <<>>
  /\ run = 1
  /\ first = None

Init == MigrationInit /\ FactoryInit /\ DetectorIdle

(***************************************************************************)
(* migrateManifest                                                          *)
(***************************************************************************)
\* working?.version ?? step.to with the operands swapped
VersionOrPrefersFallback(doc, fallback) == fallback

\* (raw?.version as any) ?? 'unknown'
VersionOr(doc, fallback) == IF doc.version = None THEN fallback ELSE doc.version[1]

\* `${String(current)}->${String(target)}`
GuardKey(cur, tgt) == << cur, tgt >>

GuardHasNever(g, key) == FALSE

\* guard.has with the key's two versions exchanged
GuardHasSwapped(g, key) == << key[2], key[1] >> \in g

GuardHas(g, key) == key \in g

\* MIGRATION_STEPS.find((s) => s.from === current): the first match's index, 0 if none.
FindStep(steps, cur) ==
  IF \E i \in 1..Len(steps) : steps[i].from = cur
  THEN CHOOSE i \in 1..Len(steps) :
         /\ steps[i].from = cur
         /\ \A j \in 1..(i - 1) : steps[j].from # cur
  ELSE 0

noOpBumpVersion(raw, tgt) == raw

LoopContinuesIgnoresTarget(cur, tgt) == cur # CURRENT_MANIFEST_VERSION

\* while (current !== target)
LoopContinues(cur, tgt) == cur # tgt

\* Lines 114-119: the locals of a call migrateManifest(raw, tgt).
EnterEngine(raw, tgt) ==
  /\ current' = VersionOr(raw, "unknown")
  /\ working' = raw
  /\ guard' = {}
  /\ execLog' = <<>>
  /\ target' = tgt
  /\ pc' = "loop"

\* migrateManifest returns doc: to the caller when called directly, into
\* const migrated when called by migrateManifestFileIfNeeded.
EngineReturns(doc) ==
  IF entry = "file"
  THEN /\ migrated' = Some(doc)
       /\ pc' = "mkdir"
       /\ UNCHANGED result
  ELSE /\ result' = [ kind |-> "return", value |-> Some(doc), error |-> "none" ]
       /\ pc' = "done"
       /\ UNCHANGED migrated

EngineSwallows ==
  /\ thrown' = "exec"
  /\ IF entry = "file"
     THEN migrated' = Some(working) /\ pc' = "mkdir" /\ UNCHANGED result
     ELSE /\ result' = [ kind |-> "return", value |-> Some(working), error |-> "none" ]
          /\ pc' = "done"
          /\ UNCHANGED migrated

\* An exec threw: nothing in migrateManifest catches it.
EngineThrows ==
  /\ thrown' = "exec"
  /\ UNCHANGED migrated
  /\ IF entry = "file"
     THEN pc' = "catch" /\ UNCHANGED result
     ELSE pc' = "done" /\ result' = [ kind |-> "throw", value |-> None, error |-> "exec" ]

CallMigrateManifest ==
  /\ pc = "start"
  /\ entry = "engine"
  /\ EnterEngine(parsed, target)
  /\ UNCHANGED << detectorVars, factoryVars, thrown, registry, entry, parsed, migrated, result, disk, ioLog, run, first >>

\* while (current !== target) is false: return working
LoopExit ==
  /\ pc = "loop"
  /\ ~LoopContinues(current, target)
  /\ EngineReturns(working)
  /\ UNCHANGED << detectorVars, factoryVars, thrown, registry, entry, parsed, target, current, working, guard, execLog,
                  disk, ioLog, run, first >>

\* guard.has(guardKey): return noOpBumpVersion(working, target)
CycleDetected ==
  /\ pc = "loop"
  /\ LoopContinues(current, target)
  /\ GuardHas(guard, GuardKey(current, target))
  /\ EngineReturns(noOpBumpVersion(working, target))
  /\ UNCHANGED << detectorVars, factoryVars, thrown, registry, entry, parsed, target, current, working, guard, execLog,
                  disk, ioLog, run, first >>

\* no step has from === current: return noOpBumpVersion(working, target)
NoStep ==
  /\ pc = "loop"
  /\ LoopContinues(current, target)
  /\ ~GuardHas(guard, GuardKey(current, target))
  /\ FindStep(registry, current) = 0
  /\ guard' = guard \cup { GuardKey(current, target) }
  /\ EngineReturns(noOpBumpVersion(working, target))
  /\ UNCHANGED << detectorVars, factoryVars, thrown, registry, entry, parsed, target, current, working, execLog,
                  disk, ioLog, run, first >>

\* working = step.exec(working, ctx); current = working?.version ?? step.to
ExecStep ==
  /\ pc = "loop"
  /\ LoopContinues(current, target)
  /\ ~GuardHas(guard, GuardKey(current, target))
  /\ FindStep(registry, current) # 0
  /\ LET step == registry[FindStep(registry, current)]
         out == RunExec(step, working)
     IN  /\ ~out.threw
         /\ guard' = guard \cup { GuardKey(current, target) }
         /\ execLog' = Append(execLog, step)
         /\ working' = out.doc
         /\ current' = VersionOr(out.doc, step.to)
  /\ UNCHANGED << detectorVars, factoryVars, thrown, registry, entry, parsed, target, pc, migrated, result,
                  disk, ioLog, run, first >>

\* step.exec(working, ctx) throws
ExecThrows ==
  /\ pc = "loop"
  /\ LoopContinues(current, target)
  /\ ~GuardHas(guard, GuardKey(current, target))
  /\ FindStep(registry, current) # 0
  /\ LET step == registry[FindStep(registry, current)]
         out == RunExec(step, working)
     IN  /\ out.threw
         /\ guard' = guard \cup { GuardKey(current, target) }
         /\ execLog' = Append(execLog, step)
  /\ EngineThrows
  /\ UNCHANGED << detectorVars, factoryVars, registry, entry, parsed, target, current, working,
                  disk, ioLog, run, first >>

\* A second call on the first call's result: migrateManifest(migrateManifest(d, t), t)
Reapply ==
  /\ pc = "done"
  /\ entry = "engine"
  /\ run = 1
  /\ result.kind = "return"
  /\ first' = Some([ result |-> result, execLog |-> execLog ])
  /\ run' = 2
  /\ parsed' = result.value[1]
  /\ result' = Pending
  /\ EnterEngine(result.value[1], target)
  /\ UNCHANGED << detectorVars, factoryVars, thrown, registry, entry, migrated, disk, ioLog >>

(***************************************************************************)
(* migrateManifestFileIfNeeded                                              *)
(***************************************************************************)
NeedsMigrationAlways(doc) == TRUE

\* parsed?.version === CURRENT_MANIFEST_VERSION is false
NeedsMigration(doc) == doc.version # Some(CURRENT_MANIFEST_VERSION)

\* if (parsed?.version === CURRENT_MANIFEST_VERSION) return null
FileAlreadyCurrent ==
  /\ pc = "start"
  /\ entry = "file"
  /\ ~NeedsMigration(parsed)
  /\ result' = [ kind |-> "null", value |-> None, error |-> "none" ]
  /\ pc' = "done"
  /\ UNCHANGED << detectorVars, factoryVars, thrown, registry, entry, parsed, target, current, working, guard, execLog,
                  migrated, disk, ioLog, run, first >>

\* const migrated = migrateManifest(parsed, CURRENT_MANIFEST_VERSION)
FileCallEngine ==
  /\ pc = "start"
  /\ entry = "file"
  /\ NeedsMigration(parsed)
  /\ EnterEngine(parsed, CURRENT_MANIFEST_VERSION)
  /\ UNCHANGED << detectorVars, factoryVars, thrown, registry, entry, parsed, migrated, result, disk, ioLog, run, first >>

\* await fs.mkdir(path.dirname(manifestPath), { recursive: true })
FileMkdir ==
  /\ pc = "mkdir"
  /\ ioLog' = Append(ioLog, "mkdir")
  /\ pc' = "write"
  /\ UNCHANGED << detectorVars, factoryVars, thrown, registry, entry, parsed, target, current, working, guard, execLog,
                  migrated, result, disk, run, first >>

\* fs.mkdir rejects
FileMkdirFails ==
  /\ pc = "mkdir"
  /\ ioLog' = Append(ioLog, "mkdir failed")
  /\ thrown' = "mkdir"
  /\ pc' = "catch"
  /\ UNCHANGED << detectorVars, factoryVars, registry, entry, parsed, target, current, working, guard, execLog,
                  migrated, result, disk, run, first >>

FileWriteParsed ==
  /\ pc = "write"
  /\ disk' = [ doc |-> parsed, intact |-> TRUE ]
  /\ ioLog' = Append(ioLog, "write")
  /\ result' = [ kind |-> "return", value |-> migrated, error |-> "none" ]
  /\ pc' = "done"
  /\ UNCHANGED << detectorVars, factoryVars, thrown, registry, entry, parsed, target, current, working, guard, execLog,
                  migrated, run, first >>

\* await fs.writeFile(manifestPath, JSON.stringify(migrated, null, 2)); return migrated
FileWrite ==
  /\ pc = "write"
  /\ disk' = [ doc |-> migrated[1], intact |-> TRUE ]
  /\ ioLog' = Append(ioLog, "write")
  /\ result' = [ kind |-> "return", value |-> migrated, error |-> "none" ]
  /\ pc' = "done"
  /\ UNCHANGED << detectorVars, factoryVars, thrown, registry, entry, parsed, target, current, working, guard, execLog,
                  migrated, run, first >>

\* fs.writeFile rejects: the file is as it was, or was truncated
FileWriteFails ==
  /\ pc = "write"
  /\ disk' \in { disk, [ disk EXCEPT !.intact = FALSE ] }
  /\ ioLog' = Append(ioLog, "write failed")
  /\ thrown' = "write"
  /\ pc' = "catch"
  /\ UNCHANGED << detectorVars, factoryVars, registry, entry, parsed, target, current, working, guard, execLog,
                  migrated, result, run, first >>

\* catch (e) { logger.main.error(...); throw e }
FileCatch ==
  /\ pc = "catch"
  /\ result' = [ kind |-> "throw", value |-> None, error |-> thrown ]
  /\ pc' = "done"
  /\ UNCHANGED << detectorVars, factoryVars, registry, entry, parsed, target, current, working, guard, execLog,
                  migrated, thrown, disk, ioLog, run, first >>

\* The next build: the persisted file is loaded and handed to
\* migrateManifestFileIfNeeded again.
Rebuild ==
  /\ pc = "done"
  /\ entry = "file"
  /\ run = 1
  /\ result.kind = "return"
  /\ disk.intact
  /\ first' = Some([ result |-> result, execLog |-> execLog ])
  /\ run' = 2
  /\ parsed' = disk.doc
  /\ working' = disk.doc
  /\ current' = "unknown"
  /\ guard' = {}
  /\ execLog' = <<>>
  /\ migrated' = None
  /\ result' = Pending
  /\ ioLog' = <<>>
  /\ pc' = "start"
  /\ UNCHANGED << detectorVars, factoryVars, thrown, registry, entry, target, disk >>

Next ==
  \/ CallMigrateManifest
  \/ LoopExit
  \/ CycleDetected
  \/ NoStep
  \/ ExecStep
  \/ ExecThrows
  \/ Reapply
  \/ FileAlreadyCurrent
  \/ FileCallEngine
  \/ FileMkdir
  \/ FileMkdirFails
  \/ FileWrite
  \/ FileWriteFails
  \/ FileCatch
  \/ Rebuild

Spec == Init /\ [][Next]_vars

(***************************************************************************)
(* The storage provider registry on its own.                                *)
(***************************************************************************)
FactoryNext ==
  \/ RegisterProvider
  \/ CreateProvider
  \/ CreateProviderUnsupported
  \/ GetRegisteredProviders

FactorySpecInit == MigrationIdle /\ FactoryInit /\ DetectorIdle

FactorySpec == FactorySpecInit /\ [][FactoryNext]_vars

(***************************************************************************)
(* detectMotionPhoto on its own.                                            *)
(***************************************************************************)
DetectorNext ==
  \/ DetectThrows
  \/ DetectNoSignal
  \/ DetectGather
  \/ CandidateValidates
  \/ CandidateRejected
  \/ CandidateThrows
  \/ FallbackBegins
  \/ FallbackValidates
  \/ FallbackAdvances
  \/ FallbackThrows
  \/ FallbackExhausted
  \/ DetectUnresolved
  \/ DetectResolved
  \/ DetectCatch

DetectorSpecInit == MigrationIdle /\ FactoryInit /\ DetectorInit

DetectorSpec == DetectorSpecInit /\ [][DetectorNext]_vars

(***************************************************************************)
(* Properties of the migration engine.                                      *)
(***************************************************************************)
\* migrateManifest returned (to its caller, or into const migrated).
EngineReturned ==
  IF entry = "file" THEN migrated # None ELSE pc = "done" /\ result.kind = "return"

EngineResult == IF entry = "file" THEN migrated[1] ELSE result.value[1]

\* The run left the loop through return noOpBumpVersion(working, target).
EscapedRun == EngineReturned /\ current # target

NoLegacy(item) == \A f \in LegacyFields : item[f] = None

HasWrite == \E i \in 1..Len(ioLog) : ioLog[i] \in { "write", "write failed" }

LoadedDisk == [ doc |-> parsed, intact |-> TRUE ]

IsMotion(item) == item.motionPhotoOffset # None /\ item.motionPhotoOffset[1] > 0

IncompleteLive(item) ==
  /\ TruthyBool(item.isLivePhoto)
  /\ TruthyStr(item.livePhotoVideoUrl)
  /\ ~TruthyStr(item.livePhotoVideoS3Key)

\* C1: whenever migrateManifest stops through an escape hatch (cycle
\* detected, or no step registered for the current version), the document
\* it returns has its version equal to the target.
C1_EscapeForcesTarget ==
  EscapedRun => EngineResult.version = Some(target)

\* C2: migrateManifest terminates over every registry: a run calls at most
\* as many execs as the registry has steps, and at every point of the loop
\* one of its branches can be taken, so the loop ends within
\* Len(registry) + 1 iterations.
C2_Terminates ==
  /\ Len(execLog) <= Len(registry)
  /\ pc = "loop" =>
       ENABLED (LoopExit \/ CycleDetected \/ NoStep \/ ExecStep \/ ExecThrows)

\* A step whose exec returned the version it started with was run, the
\* cycle was detected, and the call returned.
C2_Witness ==
  /\ pc = "done"
  /\ result.kind = "return"
  /\ execLog # <<>>
  /\ execLog[Len(execLog)].exec = "keep"
  /\ execLog[Len(execLog)].from = current
  /\ current # target

\* C3: for a document at v1, v6 or v7 with a data array,
\* migrateManifest(document, 'v8') over v1->v6->v7->v8 returns a document
\* at v8 none of whose items carries a legacy field.
C3_KnownChainReachesV8 ==
  ( /\ registry = MIGRATION_STEPS
    /\ entry = "engine"
    /\ target = "v8"
    /\ pc = "done"
    /\ parsed.version \in { Some("v1"), Some("v6"), Some("v7") }
    /\ parsed.data # None )
  => /\ result.kind = "return"
     /\ result.value[1].version = Some("v8")
     /\ result.value[1].data # None
     /\ \A i \in 1..Len(result.value[1].data[1]) : NoLegacy(result.value[1].data[1][i])

\* A v6 document with an item carrying Live Photo fields went through
\* v6->v7 and v7->v8.
C3_Witness ==
  /\ registry = MIGRATION_STEPS
  /\ entry = "engine"
  /\ target = "v8"
  /\ pc = "done"
  /\ parsed.version = Some("v6")
  /\ parsed.data # None
  /\ \E i \in 1..Len(parsed.data[1]) : parsed.data[1][i].isLivePhoto # None
  /\ Len(execLog) = 2
  /\ result.kind = "return"

\* C4: for a document whose version already equals the target,
\* migrateManifest calls no exec and returns the document unchanged; so a
\* second call on a result that reached the target returns that result.
C4_IdempotentAtTarget ==
  ( entry = "engine" /\ pc = "done" /\ parsed.version = Some(target) )
  => /\ execLog = <<>>
     /\ result = [ kind |-> "return", value |-> Some(parsed), error |-> "none" ]
     /\ run = 2 => result = first[1].result

\* The first call ran transforms and reached the target; the second call
\* on its result has ended.
C4_Witness ==
  /\ entry = "engine"
  /\ pc = "done"
  /\ run = 2
  /\ parsed.version = Some(target)
  /\ Len(first[1].execLog) > 0
  /\ result.kind = "return"

\* C5 as stated: the manifest file is written only in runs where at least
\* one transform step was applied; in every other run it is left untouched.
C5_WrittenOnlyAfterTransform ==
  ( entry = "file" /\ execLog = <<>> ) => ( ~HasWrite /\ disk = LoadedDisk )

\* C5 as amended: the manifest file is written only in runs where the
\* loaded version differs from CURRENT_MANIFEST_VERSION and migrateManifest
\* returned; otherwise it is left untouched.
C5_WrittenOnlyAfterEngine ==
  ( entry = "file" /\ ( parsed.version = Some(CURRENT_MANIFEST_VERSION) \/ migrated = None ) )
  => ( ~HasWrite /\ disk = LoadedDisk )

\* The file was written and returned in a run that applied no transform.
C5_Witness ==
  /\ entry = "file"
  /\ pc = "done"
  /\ result.kind = "return"
  /\ execLog = <<>>
  /\ ioLog = << "mkdir", "write" >>

\* C6: when the loaded version equals CURRENT_MANIFEST_VERSION,
\* migrateManifestFileIfNeeded makes no file system call, runs no transform
\* and returns null; in every other case it does not return null, and when
\* it returns it has made the directory, then written the engine's result
\* to the manifest path, and returns that result.
C6_NoIoWhenCurrent ==
  entry = "file" =>
    /\ parsed.version = Some(CURRENT_MANIFEST_VERSION) =>
         /\ ioLog = <<>>
         /\ execLog = <<>>
         /\ disk = LoadedDisk
         /\ pc \in { "start", "done" }
         /\ pc = "done" => result = [ kind |-> "null", value |-> None, error |-> "none" ]
    /\ ( parsed.version # Some(CURRENT_MANIFEST_VERSION) /\ pc = "done" ) =>
         /\ result.kind \in { "return", "throw" }
         /\ result.kind = "return" =>
              /\ migrated # None
              /\ result.value = migrated
              /\ disk = [ doc |-> migrated[1], intact |-> TRUE ]
              /\ ioLog = << "mkdir", "write" >>

\* A run that applied transforms, wrote the result and returned it.
C6_Witness ==
  /\ entry = "file"
  /\ pc = "done"
  /\ result.kind = "return"
  /\ Len(execLog) >= 1
  /\ disk.doc # parsed

\* C7: when a step's exec throws, the exception leaves migrateManifest (no
\* document is returned in its place), and migrateManifestFileIfNeeded
\* throws it on without a file system call.
C7_TransformThrowPropagates ==
  thrown = "exec" =>
    /\ ~EngineReturned
    /\ pc \in { "catch", "done" }
    /\ pc = "done" => result = [ kind |-> "throw", value |-> None, error |-> "exec" ]
    /\ entry = "file" => ( ioLog = <<>> /\ disk = LoadedDisk )

\* A registered transform threw on a document without data, and
\* migrateManifestFileIfNeeded has thrown it on.
C7_Witness ==
  /\ registry = MIGRATION_STEPS
  /\ entry = "file"
  /\ pc = "done"
  /\ thrown = "exec"
  /\ result.kind = "throw"

\* The v7 -> v8 transform was applied to the items of the loaded document.
VideoStepRan ==
  /\ registry = MIGRATION_STEPS
  /\ entry = "engine"
  /\ target = "v8"
  /\ pc = "done"
  /\ parsed.version \in { Some("v6"), Some("v7") }
  /\ parsed.data # None

\* C8 as stated: an item with isLivePhoto truthy and livePhotoVideoUrl
\* present but without livePhotoVideoS3Key ends up without a video field;
\* the transform does not fail, the other items are transformed, and the
\* document reaches v8.
C8_IncompleteLiveHasNoVideo ==
  VideoStepRan =>
    /\ result.kind = "return"
    /\ result.value[1].version = Some("v8")
    /\ LET in == parsed.data[1]
           out == result.value[1].data[1]
       IN  /\ Len(out) = Len(in)
           /\ \A i \in 1..Len(in) :
                /\ NoLegacy(out[i])
                /\ IsMotion(in[i]) => out[i].video # None
                /\ IncompleteLive(in[i]) => out[i].video = None

\* C8 as amended: the same, for an incomplete Live Photo item whose
\* motionPhotoOffset is not > 0.
C8_IncompleteLiveWithoutOffsetHasNoVideo ==
  VideoStepRan =>
    /\ result.kind = "return"
    /\ result.value[1].version = Some("v8")
    /\ LET in == parsed.data[1]
           out == result.value[1].data[1]
       IN  /\ Len(out) = Len(in)
           /\ \A i \in 1..Len(in) :
                /\ NoLegacy(out[i])
                /\ IsMotion(in[i]) => out[i].video # None
                /\ ( IncompleteLive(in[i]) /\ ~IsMotion(in[i]) ) => out[i].video = None

\* A v7 document with an incomplete Live Photo item and a motion photo
\* item was transformed: the second has its video field.
C8_Witness ==
  /\ VideoStepRan
  /\ parsed.version = Some("v7")
  /\ result.kind = "return"
  /\ \E i, j \in 1..Len(parsed.data[1]) :
       /\ IncompleteLive(parsed.data[1][i])
       /\ ~IsMotion(parsed.data[1][i])
       /\ IsMotion(parsed.data[1][j])
       /\ result.value[1].data[1][i].video = None
       /\ result.value[1].data[1][j].video # None

CompleteLive(item) ==
  /\ TruthyBool(item.isLivePhoto)
  /\ TruthyStr(item.livePhotoVideoUrl)
  /\ TruthyStr(item.livePhotoVideoS3Key)

\* C20: the v7 -> v8 transform gives an item video.type 'motion-photo'
\* exactly when its motionPhotoOffset is defined and > 0 (also when Live
\* Photo fields are present); otherwise 'live-photo' exactly when
\* isLivePhoto, livePhotoVideoUrl and livePhotoVideoS3Key are all truthy;
\* otherwise no video field; and deletes the six legacy fields in all cases.
C20_OneTaggedVideoField ==
  VideoStepRan =>
    /\ result.kind = "return"
    /\ LET in == parsed.data[1]
           out == result.value[1].data[1]
       IN  /\ Len(out) = Len(in)
           /\ \A i \in 1..Len(in) :
                /\ NoLegacy(out[i])
                /\ IF IsMotion(in[i])
                   THEN out[i].video # None /\ out[i].video[1].type = "motion-photo"
                   ELSE IF CompleteLive(in[i])
                        THEN out[i].video # None /\ out[i].video[1].type = "live-photo"
                        ELSE out[i].video = None

\* A v7 document with an item carrying both a positive motionPhotoOffset
\* and all three Live Photo fields was transformed.
C20_Witness ==
  /\ VideoStepRan
  /\ parsed.version = Some("v7")
  /\ result.kind = "return"
  /\ \E i \in 1..Len(parsed.data[1]) :
       /\ IsMotion(parsed.data[1][i])
       /\ CompleteLive(parsed.data[1][i])
       /\ result.value[1].data[1][i].video[1].type = "motion-photo"

(***************************************************************************)
(* Properties of the storage provider registry.                             *)
(***************************************************************************)
\* The factory passed by the latest registerProvider call for the name.
Installed(name) ==
  IF registered[name] = <<>> THEN None ELSE Some(registered[name][Len(registered[name])])

\* C9: after any registerProvider calls, createProvider(config) for a
\* registered tag invokes the factory installed for that tag, once, with
\* that config, returns the object it produced, and leaves the registry as
\* it was.
C9_CreateUsesInstalledFactory ==
  ( call.op = "createProvider" /\ Installed(call.config[1].provider) # None )
  => /\ call.invoked = << [ factory |-> Installed(call.config[1].provider)[1],
                            config |-> call.config[1] ] >>
     /\ call.outcome = "return"
     /\ call.provider = Some(Produce(Installed(call.config[1].provider)[1], call.config[1]))
     /\ call.error = None
     /\ providers = call.before

\* createProvider returned for a tag registered twice, the second time with
\* another factory.
C9_Witness ==
  /\ call.op = "createProvider"
  /\ call.outcome = "return"
  /\ LET history == registered[call.config[1].provider]
     IN  Len(history) = 2 /\ history[1] # history[2]

\* C10: createProvider(config) for a tag not registered at the time of the
\* call throws the unsupported-provider error carrying the tag, invokes no
\* factory, returns no provider, and leaves the registry as it was.
C10_UnregisteredTagFails ==
  ( call.op = "createProvider" /\ Installed(call.config[1].provider) = None )
  => /\ call.outcome = "throw"
     /\ call.error = Some(UnsupportedProviderError(call.config[1].provider))
     /\ call.invoked = <<>>
     /\ call.provider = None
     /\ providers = call.before

\* createProvider threw for an unregistered tag while other tags were
\* registered.
C10_Witness ==
  /\ call.op = "createProvider"
  /\ call.outcome = "throw"
  /\ Len(providers) >= 1
  /\ ~MapHas(providers, call.config[1].provider)

\* C11: registering a name again raises no error and overwrites: after any
\* registerProvider calls the listing of registered providers holds each
\* name ever registered exactly once and no other name, and the factory
\* kept for a name is the one of the latest registerProvider call for it.
C11_LastWriteWins ==
  /\ call.op = "registerProvider" => ( call.outcome = "return" /\ call.error = None )
  /\ \A n \in ProviderNames : MapGet(providers, n) = Installed(n)
  /\ call.op = "getRegisteredProviders" =>
       /\ \A n \in ProviderNames :
            Cardinality({ i \in 1..Len(call.listing) : call.listing[i] = n })
              = IF registered[n] = <<>> THEN 0 ELSE 1
       /\ \A i \in 1..Len(call.listing) : call.listing[i] \in ProviderNames

\* The providers were listed after a name was registered a second time with
\* another factory, and another name was registered too.
C11_Witness ==
  /\ call.op = "getRegisteredProviders"
  /\ Len(call.listing) >= 2
  /\ \E n \in ProviderNames :
       Len(registered[n]) = 2 /\ registered[n][1] # registered[n][2]

(***************************************************************************)
(* Properties of the motion photo detector.                                 *)
(***************************************************************************)
\* detectMotionPhoto has returned or raised.
DetectDone == detectPc = "done"

\* The call was given a Buffer.
IsBuffer == rawImageBuffer.kind = "buffer"

\* The token 'ftyp' lies within the first 32 bytes of the region that
\* begins at start.
HasSignature(buffer, start) ==
  \E p \in buffer.ftyp : start <= p /\ p + 4 <= start + 32

\* The number the EXIF MicroVideoOffset field stands for, None when none.
ExifOffset == toNumber(ExifField(exifData, "MicroVideoOffset"))

\* That number in bytes, when it is a whole number.
ExifOffsetIsWhole == ExifOffset # None /\ IsWhole(ExifOffset[1])

ExifBytes == ExifOffset[1] \div 2

\* The call returned a record with this offset and this size.
Located(offset, size) ==
  /\ detection.kind = "returned"
  /\ detection.value # None
  /\ detection.value[1].isMotionPhoto
  /\ detection.value[1].motionPhotoOffset = Whole(offset)
  /\ detection.value[1].motionPhotoVideoSize = size

\* The EXIF offset is a candidate and a signature heads the region that
\* begins candidate bytes before the end of the buffer.
SignatureFromEnd ==
  /\ IsBuffer
  /\ ExifOffsetIsWhole
  /\ ExifBytes > 0 /\ ExifBytes < rawImageBuffer.length
  /\ HasSignature(rawImageBuffer, rawImageBuffer.length - ExifBytes)

\* C12, as stated: whenever a signature is placed at length - candidate for
\* the EXIF MicroVideoOffset candidate, the call returns motionPhotoOffset =
\* length - candidate and motionPhotoVideoSize = candidate.
C12_FromEndOffsetResolved ==
  (DetectDone /\ SignatureFromEnd)
    => Located(rawImageBuffer.length - ExifBytes, ExifBytes)

\* C12, amended: the same, for a candidate of more than 8 KiB whose absolute
\* reading (start = candidate) is not itself headed by a signature with at
\* least 8 KiB after it.
C12_FromEndOffsetResolvedUnlessAbsolute ==
  ( /\ DetectDone
    /\ SignatureFromEnd
    /\ ExifBytes > 8192
    /\ ~( /\ rawImageBuffer.length - ExifBytes >= 8192
          /\ HasSignature(rawImageBuffer, ExifBytes) ) )
    => Located(rawImageBuffer.length - ExifBytes, ExifBytes)

\* The call ended on a from-end reading of the EXIF candidate that the
\* fallback scan would not have found.
C12_Witness ==
  /\ DetectDone
  /\ SignatureFromEnd
  /\ ExifBytes > 8192
  /\ ~HasSignature(rawImageBuffer, ExifBytes)
  /\ rawImageBuffer.length - ExifBytes + 4 \notin rawImageBuffer.ftyp
  /\ Located(rawImageBuffer.length - ExifBytes, ExifBytes)

\* What is written in the buffer's XMP block, wherever the block lies.
XmpWritten == IF rawImageBuffer.xmp = None THEN <<>> ELSE rawImageBuffer.xmp[1].entries

LastName(e) == NameLower(e.name[Len(e.name)])

\* Neither EXIF flag is truthy, and no MotionPhoto or MicroVideo element or
\* attribute of the XMP block has a truthy value.
NoMotionFlag ==
  /\ ~toBoolean(ExifField(exifData, "MotionPhoto"))
  /\ ~toBoolean(ExifField(exifData, "MicroVideo"))
  /\ \A i \in 1..Len(XmpWritten) :
       LastName(XmpWritten[i]) \in { "MotionPhoto", "MicroVideo" }
         => ~toBoolean(Str(XmpWritten[i].value))

\* Neither the EXIF MicroVideoOffset nor a MicroVideoOffset element or
\* attribute of the XMP block stands for a positive number.
NoOffsetHint ==
  /\ ExifOffset = None \/ ExifOffset[1] <= 0
  /\ \A i \in 1..Len(XmpWritten) :
       LastName(XmpWritten[i]) = "MicroVideoOffset"
         => LET n == toNumber(Str(XmpWritten[i].value))
            IN  n = None \/ n[1] <= 0

\* C13: with no truthy flag and no positive offset, in EXIF or in XMP, the
\* call considers no start, never begins the fallback scan, and returns
\* null whatever else the buffer and the EXIF record hold.
C13_NoHintsReturnsNull ==
  (NoMotionFlag /\ NoOffsetHint /\ detectPc # "idle")
    => /\ detectPc \in { "start", "catch", "done" }
       /\ attempts = <<>>
       /\ cursor = -1
       /\ resolvedOffset = None
       /\ DetectDone => detection = ReturnedNull

\* A call without hints returned null over a buffer in which the fallback
\* scan would have found a video.
C13_Witness ==
  /\ DetectDone
  /\ IsBuffer
  /\ NoMotionFlag /\ NoOffsetHint
  /\ exifData # None
  /\ 8204 \in rawImageBuffer.ftyp
  /\ detection = ReturnedNull

\* Some start strictly inside the buffer has at least 8 KiB after it and
\* 'ftyp' within its first 32 bytes: for a token at p the starts to try are
\* p - 28 .. p, and the least of them that is positive decides.
ValidPositionExists ==
  \E p \in rawImageBuffer.ftyp :
    LET least == IF p - 28 > 1 THEN p - 28 ELSE 1
    IN  least <= p /\ rawImageBuffer.length - least >= 8192

\* C14: when a motion flag is set and no position of the buffer passes the
\* structural validation, the call returns null.
C14_SignalWithoutVideoReturnsNull ==
  (DetectDone /\ ~NoMotionFlag /\ ~ValidPositionExists) => detection = ReturnedNull

\* The flag came from XMP, a candidate and a token were tried and rejected,
\* and the call returned null.
C14_Witness ==
  /\ DetectDone
  /\ IsBuffer
  /\ ~NoMotionFlag /\ detectedMotion
  /\ ~exifIndicatesMotion(exifData)
  /\ ~ValidPositionExists
  /\ rawImageBuffer.ftyp # {}
  /\ \E i \in 1..Len(attempts) : attempts[i].via = "absolute"
  /\ \E i \in 1..Len(attempts) : attempts[i].via = "fallback"
  /\ detection = ReturnedNull

\* An operation on rawImageBuffer threw during the call: reading its
\* length, or taking a subarray of it at a start that passed the range check.
FailureOccurred ==
  \/ rawImageBuffer.kind = "null"
  \/ /\ rawImageBuffer.kind \in { "array", "string" }
     /\ \E i \in 1..Len(attempts) : attempts[i].checked

\* C15: the call never raises; it ends with null or with a metadata record,
\* and with null when gathering, candidate resolution or the fallback scan
\* failed.
C15_NeverRaises ==
  /\ detection.kind # "raised"
  /\ DetectDone => detection.kind = "returned"
  /\ (DetectDone /\ FailureOccurred) => detection = ReturnedNull

\* The fallback scan failed on its second token and the call returned null.
C15_Witness ==
  /\ DetectDone
  /\ rawImageBuffer.kind = "string"
  /\ Len(attempts) >= 2
  /\ attempts[Len(attempts)].via = "fallback"
  /\ attempts[Len(attempts)].checked
  /\ detection = ReturnedNull

\* C16: a whole-number start considered in candidate resolution or in the
\* fallback scan is accepted exactly when it lies strictly inside the
\* buffer, leaves at least 8192 bytes after it, and has 'ftyp' within its
\* first 32 bytes.
C16_AtLeastEightKiBAccepted ==
  IsBuffer =>
    \A i \in 1..Len(attempts) :
      IsWhole(attempts[i].start) =>
        LET start == attempts[i].start \div 2
        IN  attempts[i].valid <=>
              /\ 0 < start /\ start < rawImageBuffer.length
              /\ rawImageBuffer.length - start >= 8192
              /\ HasSignature(rawImageBuffer, start)

\* The XMP block as the detector reads it: what is written in it when both
\* markers end within the first 512 KiB and in order, nothing otherwise.
XmpRead ==
  IF /\ rawImageBuffer.xmp # None
     /\ rawImageBuffer.xmp[1].start + 10 <= 524288
     /\ rawImageBuffer.xmp[1].end + 12 <= 524288
     /\ rawImageBuffer.xmp[1].start + 10 <= rawImageBuffer.length
     /\ rawImageBuffer.xmp[1].end + 12 <= rawImageBuffer.length
     /\ rawImageBuffer.xmp[1].start < rawImageBuffer.xmp[1].end + 12
  THEN rawImageBuffer.xmp[1].entries
  ELSE <<>>

\* Where a candidate was gathered: 1 from EXIF, 2 from an XMP element, 3
\* from an XMP attribute; the earliest counts.
GatheredFrom(c) ==
  IF ExifOffset = Some(c) THEN 1
  ELSE IF \E i \in 1..Len(XmpRead) :
            /\ XmpRead[i].form = "element"
            /\ LastName(XmpRead[i]) = "MicroVideoOffset"
            /\ toNumber(Str(XmpRead[i].value)) = Some(c)
       THEN 2
       ELSE 3

\* The place of a candidate in offsetCandidates.
PlaceOf(c) == CHOOSE i \in 1..Len(offsetCandidates) : offsetCandidates[i] = c

\* The attempts of candidate resolution.
FromCandidate(i) == attempts[i].via # "fallback"

\* C17: candidates are kept without duplicates in the order EXIF, XMP
\* elements, XMP attributes, and are tried in that order; each is tried as
\* an absolute start first and as a start from the end right after; the
\* first start that validates ends the search and is the result; the
\* fallback scan begins only after every candidate failed.
C17_ResolutionOrder ==
  IsBuffer =>
    /\ \A i, j \in 1..Len(offsetCandidates) :
         i < j => /\ offsetCandidates[i] # offsetCandidates[j]
                  /\ GatheredFrom(offsetCandidates[i]) <= GatheredFrom(offsetCandidates[j])
    /\ \A i \in 1..Len(attempts) :
         FromCandidate(i) =>
           /\ \E k \in 1..Len(offsetCandidates) : offsetCandidates[k] = attempts[i].candidate
           /\ \A j \in 1..(i - 1) :
                /\ FromCandidate(j)
                /\ PlaceOf(attempts[j].candidate) <= PlaceOf(attempts[i].candidate)
           /\ IF i > 1 /\ attempts[i - 1].candidate = attempts[i].candidate
              THEN /\ attempts[i - 1].start = attempts[i].candidate
                   /\ attempts[i].start
                        = Whole(rawImageBuffer.length) - attempts[i].candidate
              ELSE /\ attempts[i].start = attempts[i].candidate
                   /\ i > 1 => PlaceOf(attempts[i].candidate)
                                  = PlaceOf(attempts[i - 1].candidate) + 1
                   /\ i = 1 => PlaceOf(attempts[i].candidate) = 1
    /\ \A i \in 1..Len(attempts) :
         attempts[i].valid =>
           /\ i = Len(attempts)
           /\ resolvedOffset = Some(attempts[i].start)
           /\ DetectDone =>
                /\ detection.kind = "returned"
                /\ detection.value # None
                /\ detection.value[1].motionPhotoOffset = attempts[i].start
                /\ IsWhole(attempts[i].start) =>
                     Located(attempts[i].start \div 2,
                             rawImageBuffer.length - attempts[i].start \div 2)
    /\ detectPc = "fallback" =>
         /\ resolvedOffset = None
         /\ \A k \in 1..Len(offsetCandidates) :
              \E i \in 1..Len(attempts) :
                /\ attempts[i].candidate = offsetCandidates[k]
                /\ attempts[i].start = offsetCandidates[k]
                /\ ~attempts[i].valid

\* Two candidates were gathered, the first failed in both readings, the
\* second validated as an absolute start although a later reading and the
\* fallback scan would have validated too.
C17_Witness ==
  /\ DetectDone
  /\ IsBuffer
  /\ Len(offsetCandidates) = 2
  /\ Len(attempts) = 3
  /\ attempts[2].via = "fromEnd"
  /\ attempts[3].valid
  /\ IsWhole(attempts[3].candidate)
  /\ HasSignature(rawImageBuffer, rawImageBuffer.length - attempts[3].candidate \div 2)
  /\ Located(attempts[3].candidate \div 2,
             rawImageBuffer.length - attempts[3].candidate \div 2)

\* The call went past its first return: a flag or a candidate was found.
DetectionAttempted == detectedMotion \/ offsetCandidates # <<>>

NoCandidateValidated ==
  \A i \in 1..Len(attempts) : FromCandidate(i) => ~attempts[i].valid

\* The tokens at or after the start of the trailing 8 MiB whose start,
\* four bytes before, lies strictly inside the buffer with at least 8 KiB
\* after it.
EligibleTokens ==
  LET from == IF rawImageBuffer.length - 8388608 > 0
              THEN rawImageBuffer.length - 8388608 ELSE 0
  IN  { p \in rawImageBuffer.ftyp :
          /\ p >= from
          /\ 0 < p - 4 /\ p - 4 < rawImageBuffer.length
          /\ rawImageBuffer.length - (p - 4) >= 8192 }

\* C18: when detection was attempted and no candidate validated, the call
\* returns the start four bytes before the first eligible token of the
\* trailing 8 MiB, and null when there is none.
C18_FallbackTakesFirstEligible ==
  (DetectDone /\ IsBuffer /\ DetectionAttempted /\ NoCandidateValidated)
    => IF EligibleTokens = {}
       THEN detection = ReturnedNull
       ELSE LET p == CHOOSE q \in EligibleTokens : \A r \in EligibleTokens : q <= r
            IN  Located(p - 4, rawImageBuffer.length - (p - 4))

\* The buffer has an XMP block of which the start marker or the end marker
\* does not lie within the first 512 KiB.
XmpBeyondScan ==
  /\ rawImageBuffer.xmp # None
  /\ \/ rawImageBuffer.xmp[1].start + 10 > 524288
     \/ rawImageBuffer.xmp[1].end + 12 > 524288

\* The hints have been gathered.
Gathered == detectPc \in { "candidates", "fallback", "finish", "done" }

\* The presentation timestamp the EXIF record gives, None when none.
ExifTimestamp ==
  toNumber(Coalesce(ExifField(exifData, "MotionPhotoPresentationTimestampUs"),
                    ExifField(exifData, "MicroVideoPresentationTimestampUs")))

ExifFlag ==
  toBoolean(ExifField(exifData, "MotionPhoto")) \/ toBoolean(ExifField(exifData, "MicroVideo"))

\* C19: when a marker of the XMP block lies beyond the first 512 KiB, the
\* flag, the candidates and the timestamp are those of the EXIF record
\* alone, and the call returns null when the EXIF record gives neither a
\* flag nor an offset.
C19_XmpBeyondScanIgnored ==
  (IsBuffer /\ XmpBeyondScan /\ Gathered)
    => /\ detectedMotion = ExifFlag
       /\ \A i \in 1..Len(offsetCandidates) : ExifOffset = Some(offsetCandidates[i])
       /\ presentationTimestampUs = ExifTimestamp
       /\ (DetectDone /\ ~ExifFlag /\ (ExifOffset = None \/ ExifOffset[1] <= 0))
            => detection = ReturnedNull

\* The end marker crosses the 512 KiB line by one byte; the block holds a
\* truthy flag and an offset, the buffer a video the fallback scan would
\* find, the EXIF record nothing; the call returned null.
C19_Witness ==
  /\ DetectDone
  /\ IsBuffer
  /\ rawImageBuffer.xmp # None
  /\ rawImageBuffer.xmp[1].start = 100
  /\ rawImageBuffer.xmp[1].end + 12 = 524288 + 1
  /\ ~NoMotionFlag /\ ~NoOffsetHint
  /\ ~ExifFlag /\ ExifOffset = None
  /\ EligibleTokens # {}
  /\ detection = ReturnedNull

(***************************************************************************)
(* Further properties of the migration engine.                              *)
(***************************************************************************)
\* C21: after a step, current is the version of the document the step
\* returned, and the step's declared 'to' only when that document has no
\* version; for a document at v1 and the target v8 the execs called are
\* v1->v6, v6->v7, v7->v8, each once and in that order, and the result is
\* the third applied to the output of the second applied to the output of
\* the first.
C21_SequentialChain ==
  /\ (pc = "loop" /\ execLog # <<>>) =>
       current = IF working.version # None
                 THEN working.version[1]
                 ELSE execLog[Len(execLog)].to
  /\ ( /\ registry = MIGRATION_STEPS
       /\ run = 1
       /\ parsed.version = Some("v1")
       /\ target = "v8"
       /\ EngineReturned )
     => /\ execLog = MIGRATION_STEPS
        /\ EngineResult = ExecVideo(ExecThumbnail(ExecReset(parsed).doc).doc).doc

\* A document at v1 with items went through the three steps.
C21_Witness ==
  /\ registry = MIGRATION_STEPS
  /\ run = 1
  /\ entry = "engine"
  /\ pc = "done"
  /\ parsed.version = Some("v1")
  /\ parsed.data # None /\ parsed.data[1] # <<>>
  /\ target = "v8"
  /\ Len(execLog) = 3
  /\ result.kind = "return"
  /\ result.value[1].version = Some("v8")

\* C22: a run of migrateManifestFileIfNeeded that returns leaves a document
\* at CURRENT_MANIFEST_VERSION on disk, and the next build, which loads
\* that file, makes no file system call and returns null.
C22_FixedPointAfterOneRun ==
  /\ (entry = "file" /\ run = 1 /\ pc = "done" /\ result.kind = "return")
       => disk.doc.version = Some(CURRENT_MANIFEST_VERSION)
  /\ (entry = "file" /\ run = 2)
       => /\ ioLog = <<>>
          /\ execLog = <<>>
          /\ pc = "done" => result.kind = "null"

\* The versions the loop of the current run has looked up.
VersionsEncountered == { key[1] : key \in guard }

\* C24: in one run of migrateManifest no two executed steps started from the
\* same version, every executed step's version is in the visited set under
\* the run's one target, and the run executed at most as many transforms as
\* it encountered distinct versions, whatever the registry.
C24_EachVersionOnce ==
  /\ \A i, j \in 1..Len(execLog) : i # j => execLog[i].from # execLog[j].from
  /\ \A i \in 1..Len(execLog) : GuardKey(execLog[i].from, target) \in guard
  /\ \A key \in guard : key[2] = target
  /\ Len(execLog) <= Cardinality(VersionsEncountered)

\* Two steps that lead back to the first one's version were executed, and
\* the run returned instead of executing the first step again.
C24_Witness ==
  /\ pc = "done"
  /\ result.kind = "return"
  /\ Len(execLog) = 2
  /\ execLog[1].from # execLog[2].from
  /\ current = execLog[1].from
  /\ current # target

\* C25: after migrateManifest over v1->v6->v7->v8 returned for a v7
\* document, every item whose legacy motionPhotoOffset was > 0 has a video
\* field with that offset, with the legacy motionPhotoVideoSize as size
\* when it was defined and with the legacy presentationTimestampUs as
\* presentationTimestamp when it was defined, the value 0 included.
C25_MotionDataKept ==
  ( /\ registry = MIGRATION_STEPS
    /\ run = 1
    /\ parsed.version = Some("v7")
    /\ parsed.data # None
    /\ target = "v8"
    /\ EngineReturned )
  => \A i \in 1..Len(parsed.data[1]) :
       LET legacy == parsed.data[1][i]
           item == EngineResult.data[1][i]
       IN  (legacy.motionPhotoOffset # None /\ legacy.motionPhotoOffset[1] > 0)
           => /\ item.video # None
              /\ item.video[1].offset = legacy.motionPhotoOffset
              /\ legacy.motionPhotoVideoSize # None
                   => item.video[1].size = legacy.motionPhotoVideoSize
              /\ legacy.presentationTimestampUs # None
                   => item.video[1].presentationTimestamp = legacy.presentationTimestampUs

(***************************************************************************)
(* Further properties of the motion photo detector.                         *)
(***************************************************************************)
\* C23: a result that is not null has isMotionPhoto true, an offset
\* strictly inside the buffer, offset + size equal to the buffer's length,
\* a size of at least 8 KiB, and 'ftyp' within the 32 bytes that begin at
\* the offset.
C23_ResultWellFormed ==
  (DetectDone /\ detection.value # None) =>
    LET r == detection.value[1]
    IN  /\ r.isMotionPhoto
        /\ 0 < r.motionPhotoOffset
        /\ r.motionPhotoOffset < Whole(rawImageBuffer.length)
        /\ r.motionPhotoOffset + Whole(r.motionPhotoVideoSize)
             = Whole(rawImageBuffer.length)
        /\ r.motionPhotoVideoSize >= 8192
        /\ \E p \in rawImageBuffer.ftyp :
             /\ r.motionPhotoOffset <= Whole(p)
             /\ Whole(p + 4) <= r.motionPhotoOffset + Whole(32)

====
